---- MODULE Spec2Model ----
(***************************************************************************)
(* Rule-based clause-to-question generator (QuestionGenerator).            *)
(*                                                                         *)
(* Two variants of the class live in the repository:                       *)
(*   "app" : src/application.py                                            *)
(*   "qg"  : src/src/question_generator.py                                 *)
(* The variable `variant` fixes which one a run executes.  The annotated   *)
(* token stream (spaCy Doc) is the input: a function from 0-based token    *)
(* indices to tokens, each token a lexical kind plus the index of its      *)
(* syntactic head.                                                         *)
(***************************************************************************)
EXTENDS Integers, Sequences, FiniteSets, TLC

\* Longest token stream explored.
MaxLen == 4

\* Cap on the length of the question list (the scan loop can append forever).
MaxQuestions == 3

\* Cap on the boundary iterations of the scan loop (it can repeat forever).
MaxBoundaries == 5

\* Python's None for string-valued slots, and for index-valued slots.
None == "None"
NoTok == -1

Variants == {"app", "qg"}

(***************************************************************************)
(* The annotated token: what the annotator reports about one word.         *)
(* `tag` is the set of the substrings of spacy.explain(token.tag_) that    *)
(* the code tests for.                                                     *)
(***************************************************************************)
Kinds == {"(", ")", ".", "and", "cat", "mouse", "ran", "was"}

\* Further words, read by _determine_aux and _fg_aux only.
AuxKinds == {"to", "be", "runs", "run", "gone"}

LexTable ==
  [k \in Kinds \cup AuxKinds |->
  CASE k = "("     -> [text |-> "(",     pos |-> "PUNCT", tag |-> {},                  dep |-> "punct", ent |-> "",    lemma |-> "(",     chunk |-> FALSE, canHead |-> FALSE]
    [] k = ")"     -> [text |-> ")",     pos |-> "PUNCT", tag |-> {},                  dep |-> "punct", ent |-> "",    lemma |-> ")",     chunk |-> FALSE, canHead |-> FALSE]
    [] k = "."     -> [text |-> ".",     pos |-> "PUNCT", tag |-> {},                  dep |-> "punct", ent |-> "",    lemma |-> ".",     chunk |-> FALSE, canHead |-> FALSE]
    [] k = "and"   -> [text |-> "and",   pos |-> "CCONJ", tag |-> {},                  dep |-> "cc",    ent |-> "",    lemma |-> "and",   chunk |-> FALSE, canHead |-> FALSE]
    [] k = "cat"   -> [text |-> "cat",   pos |-> "NOUN",  tag |-> {},                  dep |-> "nsubj", ent |-> "",    lemma |-> "cat",   chunk |-> TRUE,  canHead |-> TRUE]
    [] k = "mouse" -> [text |-> "mouse", pos |-> "NOUN",  tag |-> {},                  dep |-> "dobj",  ent |-> "",    lemma |-> "mouse", chunk |-> TRUE,  canHead |-> FALSE]
    [] k = "ran"   -> [text |-> "ran",   pos |-> "VERB",  tag |-> {"past tense"},      dep |-> "conj",  ent |-> "",    lemma |-> "run",   chunk |-> FALSE, canHead |-> TRUE]
    [] k = "was"   -> [text |-> "was",   pos |-> "AUX",   tag |-> {"past tense"},      dep |-> "aux",   ent |-> "",    lemma |-> "be",    chunk |-> FALSE, canHead |-> FALSE]
    [] k = "to"    -> [text |-> "to",    pos |-> "PART",  tag |-> {},                  dep |-> "aux",   ent |-> "",    lemma |-> "to",    chunk |-> FALSE, canHead |-> FALSE]
    [] k = "be"    -> [text |-> "be",    pos |-> "AUX",   tag |-> {"base form"},       dep |-> "aux",   ent |-> "",    lemma |-> "be",    chunk |-> FALSE, canHead |-> TRUE]
    [] k = "runs"  -> [text |-> "runs",  pos |-> "VERB",  tag |-> {"present"},         dep |-> "conj",  ent |-> "",    lemma |-> "run",   chunk |-> FALSE, canHead |-> TRUE]
    [] k = "run"   -> [text |-> "run",   pos |-> "VERB",  tag |-> {"present", "non-3rd"}, dep |-> "conj", ent |-> "",  lemma |-> "run",   chunk |-> FALSE, canHead |-> TRUE]
    [] k = "gone"  -> [text |-> "gone",  pos |-> "VERB",  tag |-> {"past participle"}, dep |-> "conj",  ent |-> "",    lemma |-> "go",    chunk |-> FALSE, canHead |-> TRUE]]

Lex(k) == LexTable[k]

DocLen(d) == Cardinality(DOMAIN d)

Text(d, i) == Lex(d[i].kind).text
Pos(d, i) == Lex(d[i].kind).pos
Tag(d, i) == Lex(d[i].kind).tag
Lemma(d, i) == Lex(d[i].kind).lemma
Ent(d, i) == Lex(d[i].kind).ent
HeadOf(d, i) == d[i].head
\* A token that is its own head is a sentence root and carries the label ROOT.
Dep(d, i) == IF d[i].head = i THEN "ROOT" ELSE Lex(d[i].kind).dep

RECURSIVE InSubtree(_, _, _)
\* Token j lies in the dependency sub-tree of token i.
InSubtree(d, i, j) ==
  IF j = i THEN TRUE
  ELSE IF d[j].head = j THEN FALSE
  ELSE InSubtree(d, i, d[j].head)

RECURSIVE LeftEdgeFrom(_, _, _)
LeftEdgeFrom(d, i, j) == IF InSubtree(d, i, j) THEN j ELSE LeftEdgeFrom(d, i, j + 1)

RECURSIVE RightEdgeFrom(_, _, _)
RightEdgeFrom(d, i, j) == IF InSubtree(d, i, j) THEN j ELSE RightEdgeFrom(d, i, j - 1)

SetMin(S) == CHOOSE x \in S : \A y \in S : x <= y

\* token.left_edge.i and token.right_edge.i: the leftmost and the rightmost
\* token of the sub-tree of token i.
LeftEdge(d, i) == LeftEdgeFrom(d, i, 0)
RightEdge(d, i) == RightEdgeFrom(d, i, DocLen(d) - 1)

RECURSIVE WordsToRoot(_, _)
\* Number of head links from token i up to its sentence root.
WordsToRoot(d, i) == IF d[i].head = i THEN 0 ELSE 1 + WordsToRoot(d, d[i].head)

(***************************************************************************)
(* Well-formed parses: every token reaches a root, only nouns and verbs    *)
(* have dependents, and arcs do not cross (the parser is projective).      *)
(***************************************************************************)
IsForest(h, n) ==
  \A i \in 0..(n - 1) :
    LET RECURSIVE Climb(_, _)
        Climb(j, k) == IF k = 0 THEN j ELSE Climb(h[j], k - 1)
    IN h[Climb(i, n)] = Climb(i, n)

IsProjective(h, n) ==
  \A i \in 0..(n - 1) :
    \A j \in 0..(n - 1) :
      ((h[i] < j /\ j < i) \/ (i < j /\ j < h[i])) =>
        (\E k \in 0..n :
           LET RECURSIVE Climb(_, _)
               Climb(x, s) == IF s = 0 THEN x ELSE Climb(h[x], s - 1)
           IN Climb(j, k) = h[i])

Forests(n) == {h \in [0..(n - 1) -> 0..(n - 1)] : IsForest(h, n) /\ IsProjective(h, n)}

HasDependent(h, n, i) == \E j \in 0..(n - 1) : j # i /\ h[j] = i

KindsAt(h, n, i) == IF HasDependent(h, n, i) THEN {k \in Kinds : Lex(k).canHead} ELSE Kinds

\* The token stream with heads h and kinds ks.
MkDoc(h, ks, n) == [i \in 0..(n - 1) |-> [kind |-> ks[i], head |-> h[i]]]

(***************************************************************************)
(* The annotator's derived views of a parse.                               *)
(***************************************************************************)
\* What the code reads off one token.
Token(d, i) ==
  [i |-> i, text |-> Text(d, i), pos |-> Pos(d, i), tag |-> Tag(d, i),
   dep |-> Dep(d, i), ent |-> Ent(d, i), lemma |-> Lemma(d, i)]

\* No token (Python None where a token is expected).
NoToken ==
  [i |-> NoTok, text |-> None, pos |-> None, tag |-> {}, dep |-> None,
   ent |-> None, lemma |-> None]

\* Span.root of doc[s:e]: the first sentence root in the span, else the first
\* token whose head lies outside the span with the fewest links to its root.
SpanRoot(d, s, e) ==
  LET span == s..(e - 1)
      roots == {i \in span : d[i].head = i}
      outer == {i \in span : d[i].head \notin span}
      best == {i \in outer : \A j \in outer : WordsToRoot(d, i) <= WordsToRoot(d, j)}
  IN IF roots # {} THEN SetMin(roots)
     ELSE IF outer # {} THEN SetMin(best)
     ELSE s

RECURSIVE ChunkRootsFrom(_, _, _)
\* Doc.noun_chunks: the roots of the noun chunks from token i on, in order; a
\* chunk runs from its root's left edge to its root, and a chunk that would
\* overlap the previous one (ending at prev_end) is not produced.
ChunkRootsFrom(d, i, prev_end) ==
  IF i >= DocLen(d) THEN <<>>
  ELSE IF Lex(d[i].kind).chunk /\ LeftEdge(d, i) > prev_end
       THEN <<i>> \o ChunkRootsFrom(d, i + 1, i)
       ELSE ChunkRootsFrom(d, i + 1, prev_end)

\* Span.noun_chunks of doc[s:e]: the chunks of the doc that lie within the span.
NounChunks(d, s, e) ==
  SelectSeq(ChunkRootsFrom(d, 0, -1), LAMBDA r : LeftEdge(d, r) >= s /\ r < e)

SubjDeps == {"csubj", "csubjpass", "nsubj", "nsubjpass"}
ObjDeps == {"pobj", "dobj"}
OpenBrackets == {"(", "[", "{"}
CloseBrackets == {")", "]", "}"}
Terminators == {".", "!", "?", ";", "--", "..."}

\* in_punct after the two bracket tests on a token's text.
Toggle(in_punct, text) ==
  LET opened == IF text \in OpenBrackets THEN TRUE ELSE in_punct
  IN IF text \in CloseBrackets /\ opened THEN FALSE ELSE opened

RECURSIVE ScanNsubj(_, _, _, _)
ScanNsubj(d, i, e, in_punct) ==
  IF i >= e THEN NoTok
  ELSE LET ip == Toggle(in_punct, Text(d, i))
       IN IF ip THEN ScanNsubj(d, i + 1, e, ip)
          ELSE IF Dep(d, i) \in SubjDeps /\ "wh-determiner" \notin Tag(d, i)
               THEN i
               ELSE ScanNsubj(d, i + 1, e, ip)

\* _find_nsubj_in_tokens(clause) for clause = doc[s:e].
FindNsubjInTokens(d, s, e) == ScanNsubj(d, s, e, FALSE)

RECURSIVE SearchForObject(_, _)
RECURSIVE SearchChildren(_, _, _)
\* The loop over token.children, left to right from index j on.
SearchChildren(d, t, j) ==
  IF j >= DocLen(d) THEN NoTok
  ELSE IF j # t /\ d[j].head = t
       THEN LET r == SearchForObject(d, j)
            IN IF r # NoTok THEN r ELSE SearchChildren(d, t, j + 1)
       ELSE SearchChildren(d, t, j + 1)

SearchForObject(d, t) ==
  IF t = NoTok THEN NoTok
  ELSE IF Dep(d, t) \in ObjDeps THEN t
  ELSE SearchChildren(d, t, 0)

\* Variant of DetermineWh that tests the entity type before the passive subject.
DetermineWhEntFirst(v, subj, obj) ==
  IF obj = NoToken THEN (IF v = "app" THEN "Why" ELSE "What")
  ELSE IF obj.ent = "PERSON" THEN "Who"
  ELSE IF obj.ent = "GPE" THEN "Where"
  ELSE IF obj.ent = "DATE" THEN "When"
  ELSE IF subj.dep = "nsubjpass" /\ subj.text \notin {"which", "that"} THEN "How"
  ELSE "What"

\* _determine_wh(clause, subj, obj) of either variant.
DetermineWh(v, subj, obj) ==
  IF obj = NoToken THEN (IF v = "app" THEN "Why" ELSE "What")
  ELSE IF subj.dep = "nsubjpass" /\ subj.text \notin {"which", "that"} THEN "How"
  ELSE IF obj.ent = "PERSON" THEN "Who"
  ELSE IF obj.ent = "GPE" THEN "Where"
  ELSE IF obj.ent = "DATE" THEN "When"
  ELSE "What"

\* An exception leaving the constructor.
Raise == "raise"

\* _determine_verb_tense(verb): tag is the set of tested substrings that the
\* verb's tag description contains.
DetermineVerbTense(tag) ==
  IF "past tense" \in tag THEN "PAST_TENSE"
  ELSE IF "past principle" \in tag THEN "PAST_PRIN"
  ELSE IF "past participle" \in tag THEN "PAST_PART"
  ELSE IF "present" \in tag THEN "PRESENT"
  ELSE IF "future" \in tag THEN "FUTURE"
  ELSE IF "base form" \in tag THEN "BASE"
  ELSE None

\* _fg_aux: the "qg" variant tests 'PAST' in verb_tense, a TypeError when the
\* tense is None.
FgAux(v, text, verb_tense) ==
  IF text = "to"
  THEN IF v = "app" THEN "will"
       ELSE IF verb_tense = "PRESENT" THEN "does"
       ELSE IF verb_tense = None THEN Raise
       ELSE IF verb_tense \in {"PAST_TENSE", "PAST_PRIN", "PAST_PART"} THEN "did"
       ELSE "will"
  ELSE IF text = "be" THEN "is"
  ELSE text

RECURSIVE FirstAux(_, _, _)
\* The first token of doc[i:e] tagged AUX or labeled aux, or NoTok.
FirstAux(d, i, e) ==
  IF i >= e THEN NoTok
  ELSE IF Pos(d, i) = "AUX" \/ Dep(d, i) = "aux" THEN i
  ELSE FirstAux(d, i + 1, e)

\* _determine_aux(clause, verb, verb_tense): verb.nbor(-1) raises IndexError
\* when the verb is token 0 of the doc.
DetermineAux(v, d, s, e, verb, verb_tense) ==
  IF verb = 0 THEN Raise
  ELSE IF Pos(d, verb - 1) = "AUX" THEN FgAux(v, Text(d, verb - 1), verb_tense)
  ELSE IF FirstAux(d, s, e) # NoTok THEN FgAux(v, Text(d, FirstAux(d, s, e)), verb_tense)
  ELSE IF verb_tense = "PAST_TENSE" THEN "did"
  ELSE IF verb_tense = "PRESENT"
       THEN (IF v = "qg" /\ "non-3rd" \in Tag(d, verb) THEN "do" ELSE "does")
  ELSE None

\* The first noun chunk of doc[s:e] whose root has a subject label, or NoTok.
SubjChunk(d, s, e) ==
  LET cs == SelectSeq(NounChunks(d, s, e), LAMBDA r : Dep(d, r) \in SubjDeps)
  IN IF cs = <<>> THEN NoTok ELSE cs[1]

\* _map_syntax returned None.
MapNone ==
  [status |-> "None", end |-> NoTok, wh |-> None, aux |-> None, nsubj |-> <<>>,
   obj |-> NoTok, verb |-> None, verbTok |-> NoTok, subjTok |-> NoTok,
   subjVia |-> None]

(***************************************************************************)
(* _map_syntax(start, end).  status is "None" (returned None), "raise"    *)
(* (an exception), or "map"; for a map, nsubj is the subject span          *)
(* <<first, last + 1>> (<<>> for None), obj the object token or NoTok.     *)
(* verbTok, subjTok and subjVia record the predicate verb token, the token *)
(* whose sub-tree is the subject, and which search supplied it.            *)
(* The sub-tree of a token (and of a noun chunk) of a projective parse is  *)
(* the run of tokens from its left edge to its right edge.                 *)
(***************************************************************************)
MapSyntax(v, d, s, e) ==
  LET root == SpanRoot(d, s, e)
      chunk == SubjChunk(d, s, e)
      verb == IF chunk # NoTok THEN d[chunk].head ELSE root
      \* "app" sets subj from the chunk; "qg" leaves subj None there, so the
      \* token scan always runs.
      scans == (v = "qg") \/ chunk = NoTok
      subj_token == FindNsubjInTokens(d, s, e)
      st == IF scans THEN subj_token ELSE chunk
      subj == <<LeftEdge(d, st), RightEdge(d, st) + 1>>
      obj == SearchChildren(d, verb, 0)
      wh == DetermineWh(v, Token(d, SpanRoot(d, subj[1], subj[2])),
                        IF obj = NoTok THEN NoToken ELSE Token(d, obj))
      verb_tense == DetermineVerbTense(Tag(d, verb))
      aux == DetermineAux(v, d, s, e, verb, verb_tense)
      verb_text == IF verb_tense \in {"PAST_TENSE", "PRESENT"} /\ Text(d, verb) # aux
                   THEN Lemma(d, verb) ELSE Text(d, verb)
  IN IF scans /\ subj_token = NoTok THEN MapNone
     ELSE IF aux = Raise THEN [MapNone EXCEPT !.status = "raise"]
     ELSE [status |-> "map", end |-> RightEdge(d, verb), wh |-> wh, aux |-> aux,
           nsubj |-> subj, obj |-> obj, verb |-> verb_text, verbTok |-> verb,
           subjTok |-> st, subjVia |-> IF scans THEN "tokens" ELSE "chunks"]

\* Variant of Incomplete that forgets the aux slot.
IncompleteNoAux(m) == m.wh = None \/ m.nsubj = <<>> \/ m.verb = None

\* None in {c_map['wh'], c_map['aux'], c_map['nsubj'], c_map['verb']}
Incomplete(m) == m.wh = None \/ m.aux = None \/ m.nsubj = <<>> \/ m.verb = None

\* str.lower() of a word.
Lower(w) ==
  CASE w = "Maria" -> "maria"
    [] w = "Paris" -> "paris"
    [] w = "Will" -> "will"
    [] w = "Has" -> "has"
    [] OTHER -> w

\* The subject text handed to Question, as the sequence of its words (the
\* string joins them with single spaces).
SubjectText(v, d, sp) ==
  LET words == [k \in 1..(sp[2] - sp[1]) |-> Text(d, sp[1] + k - 1)]
      lowered == [k \in 1..(sp[2] - sp[1]) |-> Lower(words[k])]
      mixed == [k \in 1..(sp[2] - sp[1]) |->
                  IF Pos(d, sp[1] + k - 1) = "PROPN" THEN words[k] ELSE lowered[k]]
      is_proper_noun == /\ \E i \in sp[1]..(sp[2] - 1) : Ent(d, i) # ""
                        /\ \E i \in sp[1]..(sp[2] - 1) : Pos(d, i) = "PROPN"
  IN IF v = "qg" THEN mixed
     ELSE IF is_proper_noun THEN words ELSE lowered

\* Variant of Question that rewrites aux 'to' only when the verb equals it.
QuestionToOnlyWhenEqual(wh, aux, nsubj, verb, obj) ==
  LET subj == IF nsubj = <<"which">> THEN <<"it">> ELSE nsubj
      aux2 == IF verb = aux /\ aux = "to" THEN "will" ELSE aux
      text == IF verb = aux
              THEN IF aux = "has" THEN <<wh, "does">> \o subj \o <<"have", "?">>
                   ELSE <<wh, Lower(aux2)>> \o subj \o <<"?">>
              ELSE IF aux = "has" THEN <<wh, "did">> \o subj \o <<verb, "?">>
                   ELSE <<wh, Lower(aux2)>> \o subj \o <<verb, "?">>
  IN [wh |-> wh, aux |-> aux2, nsubj |-> subj, verb |-> verb, obj |-> obj,
      question |-> text]

\* Question.__init__: the stored slots and the composed string, as the
\* sequence of the words joined by single spaces.
Question(wh, aux, nsubj, verb, obj) ==
  LET subj == IF nsubj = <<"which">> THEN <<"it">> ELSE nsubj
      aux2 == IF aux = "has" THEN aux ELSE IF aux = "to" THEN "will" ELSE aux
      text == IF verb = aux
              THEN IF aux = "has" THEN <<wh, "does">> \o subj \o <<"have", "?">>
                   ELSE <<wh, Lower(aux2)>> \o subj \o <<"?">>
              ELSE IF aux = "has" THEN <<wh, "did">> \o subj \o <<verb, "?">>
                   ELSE <<wh, Lower(aux2)>> \o subj \o <<verb, "?">>
  IN [wh |-> wh, aux |-> aux2, nsubj |-> subj, verb |-> verb, obj |-> obj,
      question |-> text]

\* The Question built from a complete syntax map.
QuestionOf(v, d, m) ==
  Question(m.wh, m.aux, SubjectText(v, d, m.nsubj), Lower(m.verb), m.obj)

(***************************************************************************)
(* State of one construction QuestionGenerator(doc).                       *)
(*   variant    which file's class runs                                    *)
(*   doc        self._doc, the annotated token stream                      *)
(*   start, end, in_punct   locals of _generate_questions                  *)
(*   questions  self._questions                                            *)
(*   c_map      the last value _map_syntax returned                        *)
(*   pc         "loop", "remainder" (after the loop), "done", "error"     *)
(* History variables:                                                      *)
(*   call       the last _map_syntax call: caller, start, end              *)
(*   boundaries number of loop iterations that ran on a clause boundary    *)
(*   emitted    the syntax map behind each appended Question               *)
(*   loopCalls  the (start, end) pairs the scan loop has mapped            *)
(* Direct calls of one method (specifications SpecWh, ...):                 *)
(*   args       the arguments of the call                                  *)
(*   result     its return value, None before the call                     *)
(***************************************************************************)
VARIABLES variant, doc, start, end, in_punct, questions, c_map, pc, call, boundaries,
          emitted, loopCalls, args, result

vars == <<variant, doc, start, end, in_punct, questions, c_map, pc, call, boundaries,
          emitted, loopCalls, args, result>>

\* No direct call is in progress.
NoArgs == [fn |-> "none"]

Init ==
  /\ variant \in Variants
  /\ \E n \in 0..MaxLen :
       \E h \in Forests(n) :
         \E ks \in [0..(n - 1) -> Kinds] :
           /\ \A i \in 0..(n - 1) : ks[i] \in KindsAt(h, n, i)
           /\ doc = MkDoc(h, ks, n)
  /\ start = 0
  /\ end = 1
  /\ in_punct = FALSE
  /\ questions = <<>>
  /\ c_map = MapNone
  /\ pc = "loop"
  /\ call = [from |-> "none", start |-> 0, end |-> 0]
  /\ boundaries = 0
  /\ emitted = <<>>
  /\ loopCalls = {}
  /\ args = NoArgs
  /\ result = None

\* The while condition of the scan loop.
LoopCond == end < DocLen(doc) /\ start < end

\* A clause boundary as the specification words it: a sentence terminator or
\* a coordinating conjunction.
ClauseBoundary(d, i) == Text(d, i) \in Terminators \/ Dep(d, i) = "cc"

\* Variant of IsBoundary with the second `not` dropped.
IsBoundaryDroppedNot(d, i) == Text(d, i) \in Terminators \/ Dep(d, i) \notin {"cc"}

\* The token at `end` fires a clause boundary.
IsBoundary(d, i) == Text(d, i) \in Terminators \/ Dep(d, i) \in {"cc"}

\* The loop reached the _map_syntax call of this iteration.
AtBoundary ==
  /\ pc = "loop"
  /\ LoopCond
  /\ ~Toggle(in_punct, Text(doc, end))
  /\ IsBoundary(doc, end)
  /\ boundaries < MaxBoundaries

\* Iteration on a token inside a bracketed aside.
LoopInPunct ==
  /\ pc = "loop"
  /\ LoopCond
  /\ Toggle(in_punct, Text(doc, end))
  /\ in_punct' = TRUE
  /\ end' = end + 1
  /\ UNCHANGED <<loopCalls, args, result, variant, doc, start, questions, c_map, pc, call, boundaries, emitted>>

\* Iteration on a token that is no clause boundary.
LoopNoBoundary ==
  /\ pc = "loop"
  /\ LoopCond
  /\ ~Toggle(in_punct, Text(doc, end))
  /\ ~IsBoundary(doc, end)
  /\ in_punct' = FALSE
  /\ end' = end + 1
  /\ UNCHANGED <<loopCalls, args, result, variant, doc, start, questions, c_map, pc, call, boundaries, emitted>>

\* Boundary iteration in which _map_syntax raises.
LoopMapRaise(m) ==
  /\ m.status = "raise"
  /\ pc' = "error"
  /\ UNCHANGED <<start, end, questions, c_map, emitted>>

\* Boundary iteration in which _map_syntax returns None.
LoopMapNone(m) ==
  /\ m.status = "None"
  /\ c_map' = m
  /\ end' = end + 1
  /\ UNCHANGED <<start, questions, pc, emitted>>

\* Boundary iteration in which the map lacks wh, aux, nsubj or verb: "qg"
\* tests it before moving start, "app" after.
LoopMapIncomplete(m) ==
  /\ m.status = "map"
  /\ Incomplete(m)
  /\ c_map' = m
  /\ start' = IF variant = "app" THEN m.end ELSE start
  /\ end' = IF variant = "app" THEN m.end + 1 ELSE end + 1
  /\ UNCHANGED <<questions, pc, emitted>>

\* Variant of LoopMapSuccess without the final end += 1.
LoopMapSuccessNoAdvance(m) ==
  /\ m.status = "map"
  /\ ~Incomplete(m)
  /\ Len(questions) < MaxQuestions
  /\ c_map' = m
  /\ start' = m.end
  /\ end' = m.end
  /\ questions' = Append(questions, QuestionOf(variant, doc, m))
  /\ emitted' = Append(emitted, m)
  /\ UNCHANGED pc

\* Boundary iteration that appends a Question.
LoopMapSuccess(m) ==
  /\ m.status = "map"
  /\ ~Incomplete(m)
  /\ Len(questions) < MaxQuestions
  /\ c_map' = m
  /\ start' = m.end
  /\ end' = m.end + 1
  /\ questions' = Append(questions, QuestionOf(variant, doc, m))
  /\ emitted' = Append(emitted, m)
  /\ UNCHANGED pc

\* Iteration on a clause boundary: c_map = self._map_syntax(start, end).
LoopMap ==
  /\ AtBoundary
  /\ in_punct' = FALSE
  /\ call' = [from |-> "loop", start |-> start, end |-> end]
  /\ boundaries' = boundaries + (IF ClauseBoundary(doc, end) THEN 1 ELSE 0)
  /\ loopCalls' = loopCalls \cup {<<start, end>>}
  /\ UNCHANGED <<args, result, variant, doc>>
  /\ LET m == MapSyntax(variant, doc, start, end)
     IN \/ LoopMapRaise(m)
        \/ LoopMapNone(m)
        \/ LoopMapIncomplete(m)
        \/ LoopMapSuccess(m)

\* The while condition fails.
LoopExit ==
  /\ pc = "loop"
  /\ ~LoopCond
  /\ pc' = "remainder"
  /\ UNCHANGED <<loopCalls, args, result, variant, doc, start, end, in_punct, questions, c_map, call, boundaries,
                 emitted>>

\* No token is left after the loop.
RemainderEmpty ==
  /\ pc = "remainder"
  /\ start >= DocLen(doc)
  /\ pc' = "done"
  /\ UNCHANGED <<loopCalls, args, result, variant, doc, start, end, in_punct, questions, c_map, call, boundaries,
                 emitted>>

\* The final mapping over doc[start:] raises.
RemainderRaise(m) ==
  /\ m.status = "raise"
  /\ pc' = "error"
  /\ UNCHANGED <<questions, c_map, emitted>>

\* The final mapping returns None or an incomplete map.
RemainderFail(m) ==
  /\ m.status = "None" \/ (m.status = "map" /\ Incomplete(m))
  /\ c_map' = m
  /\ pc' = "done"
  /\ UNCHANGED <<questions, emitted>>

\* The final mapping appends a Question.
RemainderSuccess(m) ==
  /\ m.status = "map"
  /\ ~Incomplete(m)
  /\ c_map' = m
  /\ questions' = Append(questions, QuestionOf(variant, doc, m))
  /\ emitted' = Append(emitted, m)
  /\ pc' = "done"

\* After the loop: c_map = self._map_syntax(start, len(self._doc)).
Remainder ==
  /\ pc = "remainder"
  /\ start < DocLen(doc)
  /\ call' = [from |-> "remainder", start |-> start, end |-> DocLen(doc)]
  /\ UNCHANGED <<loopCalls, args, result, variant, doc, start, end, in_punct, boundaries>>
  /\ LET m == MapSyntax(variant, doc, start, DocLen(doc))
     IN \/ RemainderRaise(m)
        \/ RemainderFail(m)
        \/ RemainderSuccess(m)

Next ==
  \/ LoopInPunct
  \/ LoopNoBoundary
  \/ LoopMap
  \/ LoopExit
  \/ RemainderEmpty
  \/ Remainder

\* One construction QuestionGenerator(doc) over every bounded token stream.
Spec == Init /\ [][Next]_vars

(***************************************************************************)
(* Direct calls of _determine_wh over every subject root and object.       *)
(***************************************************************************)
WhSubjDeps == {"nsubj", "nsubjpass", "csubj", "csubjpass", "ROOT"}
WhSubjTexts == {"which", "that", "cat", "Maria"}
WhEnts == {"", "PERSON", "GPE", "DATE", "ORG"}

WhSubjects == {[NoToken EXCEPT !.i = 0, !.text = t, !.dep = dp] : t \in WhSubjTexts, dp \in WhSubjDeps}
WhObjects == {NoToken} \cup {[NoToken EXCEPT !.i = 1, !.text = "it", !.dep = "dobj", !.ent = en] : en \in WhEnts}

InitWh ==
  /\ variant \in Variants
  /\ doc = <<>>
  /\ start = 0
  /\ end = 1
  /\ in_punct = FALSE
  /\ questions = <<>>
  /\ c_map = MapNone
  /\ pc = "call"
  /\ call = [from |-> "none", start |-> 0, end |-> 0]
  /\ boundaries = 0
  /\ emitted = <<>>
  /\ loopCalls = {}
  /\ \E sj \in WhSubjects : \E ob \in WhObjects : args = [fn |-> "wh", subj |-> sj, obj |-> ob]
  /\ result = None

CallDetermineWh ==
  /\ pc = "call"
  /\ args.fn = "wh"
  /\ result' = DetermineWh(variant, args.subj, args.obj)
  /\ pc' = "return"
  /\ UNCHANGED <<variant, doc, start, end, in_punct, questions, c_map, call, boundaries,
                 emitted, loopCalls, args>>

NextWh == CallDetermineWh

SpecWh == InitWh /\ [][NextWh]_vars

(***************************************************************************)
(* Direct constructions Question(wh, aux, nsubj, verb, obj).               *)
(***************************************************************************)
QWhs == {"What", "How"}
QAuxes == {"has", "Has", "to", "did", "Will"}
QVerbs == {"has", "to", "did", "run"}
QSubjects == {<<"which">>, <<"cat">>, <<"the", "cat">>, <<"which", "cat">>}

\* The state in which no construction of a QuestionGenerator runs.
NoRun ==
  /\ start = 0
  /\ end = 1
  /\ in_punct = FALSE
  /\ questions = <<>>
  /\ c_map = MapNone
  /\ call = [from |-> "none", start |-> 0, end |-> 0]
  /\ boundaries = 0
  /\ emitted = <<>>
  /\ loopCalls = {}

InitQuestion ==
  /\ variant \in Variants
  /\ NoRun
  /\ doc = <<>>
  /\ pc = "call"
  /\ \E w \in QWhs : \E a \in QAuxes : \E sj \in QSubjects : \E vb \in QVerbs :
       args = [fn |-> "question", wh |-> w, aux |-> a, nsubj |-> sj, verb |-> vb]
  /\ result = None

CallQuestion ==
  /\ pc = "call"
  /\ args.fn = "question"
  /\ result' = Question(args.wh, args.aux, args.nsubj, args.verb, NoTok)
  /\ pc' = "return"
  /\ UNCHANGED <<variant, doc, start, end, in_punct, questions, c_map, call, boundaries,
                 emitted, loopCalls, args>>

NextQuestion == CallQuestion

SpecQuestion == InitQuestion /\ [][NextQuestion]_vars

(***************************************************************************)
(* Direct calls _determine_aux(clause, verb, verb_tense), the tense being  *)
(* the one _map_syntax passes: _determine_verb_tense(verb).                *)
(***************************************************************************)
MaxAuxLen == 3
AuxDocKinds == {"cat", "was", "ran"} \cup AuxKinds

InitAux ==
  /\ variant \in Variants
  /\ NoRun
  /\ pc = "call"
  /\ result = None
  /\ \E n \in 1..MaxAuxLen : \E vb \in 0..(n - 1) :
       \E ks \in [0..(n - 1) -> AuxDocKinds] :
         \E s \in 0..(n - 1) : \E e \in (s + 1)..n :
           /\ n > 1 => Lex(ks[vb]).canHead
           /\ doc = MkDoc([i \in 0..(n - 1) |-> vb], ks, n)
           /\ args = [fn |-> "aux", start |-> s, end |-> e, verb |-> vb,
                      verb_tense |-> DetermineVerbTense(Lex(ks[vb]).tag)]

CallDetermineAux ==
  /\ pc = "call"
  /\ args.fn = "aux"
  /\ result' = DetermineAux(variant, doc, args.start, args.end, args.verb, args.verb_tense)
  /\ pc' = "return"
  /\ UNCHANGED <<variant, doc, start, end, in_punct, questions, c_map, call, boundaries,
                 emitted, loopCalls, args>>

NextAux == CallDetermineAux

SpecAux == InitAux /\ [][NextAux]_vars

(***************************************************************************)
(* Properties.                                                             *)
(***************************************************************************)
\* The state calls _map_syntax next: from the loop or for the remainder.
CallsMap == AtBoundary \/ (pc = "remainder" /\ start < DocLen(doc))

\* The value that call returns.
NextMap == MapSyntax(variant, doc, start, IF pc = "loop" THEN end ELSE DocLen(doc))

\* wh, aux, nsubj and verb of a returned map are all non-None.
FourSlots(m) ==
  m.status = "map" /\ m.wh # None /\ m.aux # None /\ m.nsubj # <<>> /\ m.verb # None

RECURSIVE CloserFrom(_, _, _)
\* The index of the bracket closing the one opened `depth` levels up, scanning
\* from token j; NoTok when it is never closed.
CloserFrom(d, j, depth) ==
  IF j >= DocLen(d) THEN NoTok
  ELSE IF Text(d, j) \in OpenBrackets THEN CloserFrom(d, j + 1, depth + 1)
  ELSE IF Text(d, j) \in CloseBrackets
       THEN (IF depth = 1 THEN j ELSE CloserFrom(d, j + 1, depth - 1))
  ELSE CloserFrom(d, j + 1, depth)

\* Token i lies between an opening bracket and its closing bracket.
InBracketedAside(d, i) ==
  \E a \in 0..(i - 1) : Text(d, a) \in OpenBrackets /\ CloserFrom(d, a + 1, 1) > i

\* C1: a step of the scan loop or of the remainder attempt appends a Question
\* exactly when the map returned has wh, aux, nsubj and verb all non-None,
\* whatever its obj; no other step changes the question list.
C1_EmitOnlyComplete ==
  [][/\ CallsMap => ((questions' # questions) <=> FourSlots(NextMap))
     /\ questions' # questions => (CallsMap /\ Len(questions') = Len(questions) + 1)]_vars

\* C1 witness: a Question was appended from a map whose obj is None.
C1_Witness ==
  /\ pc = "done"
  /\ \E k \in 1..Len(emitted) : emitted[k].obj = NoTok /\ FourSlots(emitted[k])

\* C2: from one loop iteration to the next start never decreases, and an
\* iteration that appended a Question leaves start at the right-edge index of
\* the map's verb and end at start + 1.
C2_StartMonotone ==
  [][(pc = "loop" /\ pc' = "loop") =>
       /\ start' >= start
       /\ (questions' # questions =>
             /\ start' = c_map'.end
             /\ start' = RightEdge(doc, c_map'.verbTok)
             /\ end' = start' + 1)]_vars

\* C2 witness: the loop goes on after a successful mapping that moved start.
C2_Witness ==
  /\ pc = "loop"
  /\ call.from = "loop"
  /\ Len(questions) > 0
  /\ start > call.start
  /\ start = c_map.end
  /\ end = start + 1

\* C3: the subject head token of a returned syntax map never lies inside a
\* bracketed aside.
C3_SubjectOutsideBrackets ==
  c_map.status = "map" => ~InBracketedAside(doc, c_map.subjTok)

\* C4: the scan loop never calls _map_syntax with `end` at a token inside a
\* bracketed aside.
C4_NoBoundaryInBrackets ==
  call.from = "loop" => ~InBracketedAside(doc, call.end)

\* C5 (as stated): the number of Questions is at most the number of clause
\* boundaries the scan detected.
C5_AtMostBoundaries == Len(questions) <= boundaries

\* C5 (amended): the Questions appended by the scan loop number at most the
\* boundaries detected, and the remainder attempt adds at most one more.
C5_AtMostBoundariesPlusOne ==
  /\ pc \in {"loop", "remainder"} => Len(questions) <= boundaries
  /\ Len(questions) <= boundaries + 1

\* C5 witness: the remainder attempt appended a Question for a last clause
\* with no trailing punctuation.
C5_Witness ==
  /\ pc = "done"
  /\ call.from = "remainder"
  /\ Len(questions) = boundaries + 1

\* C6: constructing the QuestionGenerator never ends in an error.
C6_NeverRaises == pc # "error"

\* C7: no predicate verb token gives rise to more than one appended Question.
C7_OneQuestionPerVerb ==
  \A j, k \in 1..Len(emitted) : j # k => emitted[j].verbTok # emitted[k].verbTok

\* C8: when _map_syntax at a clause boundary returns None or an incomplete
\* map, the iteration leaves start and the question list unchanged and
\* increases end by exactly one.
C8_FailureKeepsStart ==
  [][(AtBoundary /\ NextMap.status # "raise" /\ ~FourSlots(NextMap)) =>
       (start' = start /\ questions' = questions /\ end' = end + 1)]_vars

\* The call was _determine_wh on a passive subject other than which/that.
PassiveCall ==
  /\ pc = "return"
  /\ args.fn = "wh"
  /\ args.subj.dep = "nsubjpass"
  /\ args.subj.text \notin {"which", "that"}

\* C9 (as stated): a passive subject other than which/that gives 'How' for
\* every object, an absent one included.
C9_PassiveAlwaysHow == PassiveCall => result = "How"

\* C9 (amended): a passive subject other than which/that gives 'How' for
\* every object that is present.
C9_PassiveHowWithObject == (PassiveCall /\ args.obj # NoToken) => result = "How"

\* C9 witness: a passive subject with a PERSON object was answered 'How'.
C9_Witness == PassiveCall /\ args.obj # NoToken /\ args.obj.ent = "PERSON" /\ result = "How"

\* The reference table of the WH-word.
WhTable(subj, obj) ==
  IF obj = NoToken THEN "Why"
  ELSE IF subj.dep = "nsubjpass" /\ subj.text \notin {"which", "that"} THEN "How"
  ELSE CASE obj.ent = "PERSON" -> "Who"
         [] obj.ent = "GPE" -> "Where"
         [] obj.ent = "DATE" -> "When"
         [] OTHER -> "What"

\* C10: _determine_wh equals the reference table for every subject root and
\* object.
C10_WhMatchesTable ==
  (pc = "return" /\ args.fn = "wh") => result = WhTable(args.subj, args.obj)
\* A Question was constructed.
QuestionBuilt == pc = "return" /\ args.fn = "question"

\* The composition as the claim words it.
ComposedAsStated(wh, aux, subj, verb) ==
  IF verb = aux
  THEN IF aux = "has" THEN <<wh, "does">> \o subj \o <<"have", "?">>
       ELSE <<wh, IF aux = "to" THEN "will" ELSE aux>> \o subj \o <<"?">>
  ELSE IF aux = "has" THEN <<wh, "did">> \o subj \o <<verb, "?">>
       ELSE <<wh, aux>> \o subj \o <<verb, "?">>

\* C11 (as stated): the composed string is the stated table over wh, aux,
\* subject text and verb text.
C11_ComposedAsStated ==
  QuestionBuilt =>
    result.question = ComposedAsStated(args.wh, args.aux, args.nsubj, args.verb)

\* C11 (amended): the stated table, applied to the subject with the text
\* 'which' replaced by 'it' and to the aux lowercased with 'to' replaced by
\* 'will' in both non-'has' branches; the string ends with ' ?'.
C11_ComposedAmended ==
  QuestionBuilt =>
    LET subj == IF args.nsubj = <<"which">> THEN <<"it">> ELSE args.nsubj
        aux == IF args.aux = "to" THEN "will"
               ELSE IF args.aux = "Will" THEN "will"
               ELSE IF args.aux = "Has" THEN "has"
               ELSE args.aux
        q == result.question
    IN /\ q = (IF args.verb = args.aux
               THEN IF args.aux = "has" THEN <<args.wh, "does">> \o subj \o <<"have", "?">>
                    ELSE <<args.wh, aux>> \o subj \o <<"?">>
               ELSE IF args.aux = "has" THEN <<args.wh, "did">> \o subj \o <<args.verb, "?">>
                    ELSE <<args.wh, aux>> \o subj \o <<args.verb, "?">>)
       /\ Len(q) >= 2
       /\ q[Len(q)] = "?"

\* C11 witness: aux 'to' with a different verb was composed with 'will'.
C11_Witness ==
  /\ QuestionBuilt
  /\ args.aux = "to"
  /\ args.verb = "run"
  /\ args.nsubj = <<"cat">>
  /\ result.question = <<args.wh, "will", "cat", "run", "?">>

\* _determine_aux returned or raised.
AuxCalled == pc = "return" /\ args.fn = "aux"

\* Fine-tuning as the claim words it.
FineTuned(text, verb_tense) ==
  IF text = "to"
  THEN IF verb_tense = "PRESENT" THEN "does"
       ELSE IF verb_tense \in {"PAST_TENSE", "PAST_PRIN", "PAST_PART"} THEN "did"
       ELSE "will"
  ELSE IF text = "be" THEN "is"
  ELSE text

\* The three rules in the claim's priority order.
AuxByPriority(d, s, e, verb, verb_tense) ==
  LET auxes == {i \in s..(e - 1) : Pos(d, i) = "AUX" \/ Dep(d, i) = "aux"}
  IN IF verb > 0 /\ Pos(d, verb - 1) = "AUX"
     THEN FineTuned(Text(d, verb - 1), verb_tense)
     ELSE IF auxes # {} THEN FineTuned(Text(d, SetMin(auxes)), verb_tense)
     ELSE IF verb_tense = "PAST_TENSE" THEN "did"
     ELSE IF verb_tense = "PRESENT"
          THEN (IF "non-3rd" \in Tag(d, verb) THEN "do" ELSE "does")
     ELSE None

\* C12: _determine_aux returns the fine-tuned token before the verb if it is
\* tagged AUX, else the fine-tuned first AUX/aux token of the clause, else the
\* tense default ('did', 'does' or 'do', None).
C12_AuxByPriority ==
  AuxCalled =>
    result = AuxByPriority(doc, args.start, args.end, args.verb, args.verb_tense)

\* c_map is what _map_syntax returned for the clause doc[call.start:call.end].
MapReturned == call.from # "none" /\ pc # "error"

\* C13: when the clause has a noun chunk whose root has a subject label, the
\* mapping does not fail, the first such chunk's root decides the subject (its
\* full sub-tree span, whatever the token scan would pick), the verb is that
\* root's head and `end` is the head's right edge.
C13_ChunkSubjectDecides ==
  LET chunk == SubjChunk(doc, call.start, call.end)
  IN (MapReturned /\ chunk # NoTok) =>
       /\ c_map.status = "map"
       /\ c_map.nsubj = <<LeftEdge(doc, chunk), RightEdge(doc, chunk) + 1>>
       /\ c_map.verbTok = HeadOf(doc, chunk)
       /\ c_map.end = RightEdge(doc, HeadOf(doc, chunk))

\* The scan loop stands at a clause boundary with a (start, end) it has mapped
\* before.  What an iteration at a boundary does is a function of the doc,
\* start and end alone, so from here the loop repeats forever; and a loop that
\* never ends must come back to some (start, end), there being finitely many.
Rescans ==
  /\ pc = "loop"
  /\ LoopCond
  /\ ~Toggle(in_punct, Text(doc, end))
  /\ IsBoundary(doc, end)
  /\ <<start, end>> \in loopCalls

\* C14: _generate_questions terminates: the scan loop never comes back to a
\* boundary with the same start and end, in particular not after a successful
\* mapping whose `end` equals the current start.
C14_LoopNeverRescans == ~Rescans
====
